---- MODULE Spec2Model ----
(***************************************************************************)
(* Model of package mongoclient (TudorHulban/wrpMongoDB): a facade that    *)
(* converts JSON payloads to bson.M and dispatches one driver operation    *)
(* per call against one collection.                                        *)
(*                                                                         *)
(* The repository holds two snapshots of the facade: type Client           *)
(* (src/unnamed/part_002) and the older type MoInstance                    *)
(* (src/unnamed/part_001).  They differ in NewMongo and InsertOne; every   *)
(* other method is the same code.  The variable impl records which         *)
(* constructor built the facade.                                           *)
(*                                                                         *)
(* The MongoDB driver and server are the environment: the collection is    *)
(* a sequence of documents in natural (insertion) order, and every driver  *)
(* call takes a fault drawn from Faults.                                   *)
(***************************************************************************)
EXTENDS Integers, Sequences, FiniteSets, TLC

\* ------------------------------------------------------------------ bounds

\* ObjectIDs the driver may generate in one behaviour.
MaxOid == 2

\* ------------------------------------------------------------------ values

\* A BSON value: t is the BSON type, s the text of a string, and h, n the
\* number h * 2^30 + n (0 <= n < 2^30) of a numeric value; n is also the
\* number of an ObjectID.
Str(s) == [t |-> "string", s |-> s, n |-> 0, h |-> 0]
Dbl(n) == [t |-> "double", s |-> "", n |-> n, h |-> 0]
I32(n) == [t |-> "int32", s |-> "", n |-> n, h |-> 0]
Oid(i) == [t |-> "objectID", s |-> "", n |-> i, h |-> 0]

\* primitive.ObjectID{}: the zero identifier.
ZeroID == Oid(0)

\* A nil interface value (no InsertedID, no document).
NilValue == [t |-> "nil", s |-> "", n |-> 0, h |-> 0]

\* bson.M(nil) and bson.M{}: the driver encodes both as the empty document.
EmptyM == [f \in {} |-> NilValue]

\* A JSON text, as its syntax tree.  k is the kind of the top-level value
\* ("malformed" for bytes that are not JSON), m its members when it is an
\* object.  A member is a JSON string or a JSON number; JNum(n) is the
\* integer n, JBig(h, n) the integer h * 2^30 + n.
JStr(s) == [k |-> "string", s |-> s, n |-> 0, h |-> 0]
JNum(n) == [k |-> "number", s |-> "", n |-> n, h |-> 0]
JBig(h, n) == [k |-> "number", s |-> "", n |-> n, h |-> h]
NoMembers == [f \in {} |-> JNum(0)]
JText(kind) == [k |-> kind, m |-> NoMembers]
JObj(members) == [k |-> "object", m |-> members]

\* A value of the tests' struct record (Name, Gender, Age): john is
\* Person("john", "male", 44).
Person(name, gender, age) ==
    [f \in {"Name", "Gender", "Age"} |->
        CASE f = "Name" -> JStr(name) [] f = "Gender" -> JStr(gender) [] OTHER -> JNum(age)]

\* {"Age":44}: a filter a caller can pass, selecting by a field as it is stored.
OnlyAge(age) == [f \in {"Age"} |-> JNum(age)]

\* json.Marshal of a struct value: the exported fields only (a field whose
\* name starts with a lower-case letter is skipped).
ExportedFields == {"Name", "Gender", "Age"}
Marshal(value) == JObj([f \in DOMAIN value \cap ExportedFields |-> value[f]])

\* struct{ age uint }{age: 44}, the filter value of TestFindManyJSON: its
\* only field is unexported, so it marshals to {}.
AgeStruct(age) == [f \in {"age"} |-> JNum(age)]

ObjectPayloads == { Marshal(Person("john", "male", 44)), JObj(OnlyAge(44)), Marshal(AgeStruct(44)) }

\* null, 44, [44], and the truncated text {"Name": .
NonObjectPayloads == { JText("null"), JText("number"), JText("array"), JText("malformed") }

Payloads == ObjectPayloads \cup NonObjectPayloads

\* ------------------------------------------------------------------ errors

\* An error value: cause is the error at the bottom of the chain, wrap the
\* message errors.Wrap put around it ("" when the error is returned as is).
Err(cause) == [wrap |-> "", cause |-> cause]
NoErr == Err("nil")

\* encoding/json's errors.
JSONErrors == {"SyntaxError", "UnmarshalTypeError"}

\* Faults of one driver call: none, or the context deadline is exceeded.
Faults == {"none", "DeadlineExceeded"}

\* A driver call on a handle that is not connected fails before a fault can
\* strike it.
FaultsOf(all, connState) == IF connState = "connected" THEN all ELSE {"none"}

\* Faults of an insert: those, and a write the server does not acknowledge.
InsertFaults == Faults \cup {"ErrUnacknowledgedWrite"}

\* ------------------------------------------------------------------ helpers.go

RECURSIVE BitLen(_)
\* The number of bits of x.
BitLen(x) == IF x = 0 THEN 0 ELSE 1 + BitLen(x \div 2)

\* The float64 nearest to the integer h * 2^30 + n (strconv.ParseFloat):
\* an integer of at most 53 bits is kept; of a longer one the bits below the
\* 53 leading ones are rounded away, a tie going to the even mantissa.
Float64(h, n) ==
    LET len == IF h = 0 THEN BitLen(n) ELSE 30 + BitLen(h)
        unit == 2 ^ (len - 53)
        down == n - (n % unit)
        up == \/ 2 * (n % unit) > unit
              \/ 2 * (n % unit) = unit /\ (down \div unit) % 2 = 1
    IN  CASE len <= 53 -> [t |-> "double", s |-> "", n |-> n, h |-> h]
          [] len > 53 /\ ~up -> [t |-> "double", s |-> "", n |-> down, h |-> h]
          [] len > 53 /\ up /\ down + unit < 2 ^ 30 ->
                [t |-> "double", s |-> "", n |-> down + unit, h |-> h]
          [] OTHER -> [t |-> "double", s |-> "", n |-> 0, h |-> h + 1]

\* encoding/json decodes into interface{}: a string stays a string, a number
\* becomes the float64 nearest to it.
FromJSONValue(v) == IF v.k = "string" THEN Str(v.s) ELSE Float64(v.h, v.n)

\* json.Unmarshal(jsonRaw, &result) with result a bson.M: bytes that are not
\* JSON are a SyntaxError; JSON null leaves the map nil and is no error; an
\* object fills the map; any other value is an UnmarshalTypeError.
jsonToBsonM(jsonRaw) ==
    CASE jsonRaw.k = "malformed" -> [result |-> EmptyM, err |-> Err("SyntaxError")]
      [] jsonRaw.k = "null" -> [result |-> EmptyM, err |-> NoErr]
      [] jsonRaw.k = "object" ->
            [result |-> [f \in DOMAIN jsonRaw.m |-> FromJSONValue(jsonRaw.m[f])], err |-> NoErr]
      [] OTHER -> [result |-> EmptyM, err |-> Err("UnmarshalTypeError")]

\* ------------------------------------------------------------------ server

IsNumber(v) == v.t \in {"double", "int32"}

\* The server's equality: numbers compare by value across numeric types,
\* everything else by type and value.
ValueEq(a, b) == IF IsNumber(a) /\ IsNumber(b) THEN a.n = b.n /\ a.h = b.h ELSE a = b

\* A filter maps a field to a value (implicit equality) or to {"$eq": value}.
IsEqOperator(c) == "$eq" \in DOMAIN c
Operand(c) == IF IsEqOperator(c) THEN c["$eq"] ELSE c

\* doc matches filter: every constrained field is present and equal.
Matches(doc, filter) ==
    \A f \in DOMAIN filter : f \in DOMAIN doc /\ ValueEq(doc[f], Operand(filter[f]))

\* The documents of c that match filter, in natural order.
Matching(c, filter) == SelectSeq(c, LAMBDA d : Matches(d, filter))

\* Index of the first document of c matching filter, 0 when there is none.
FirstMatch(c, filter) ==
    IF \E i \in 1..Len(c) : Matches(c[i], filter)
    THEN CHOOSE i \in 1..Len(c) :
            Matches(c[i], filter) /\ \A j \in 1..(i - 1) : ~Matches(c[j], filter)
    ELSE 0

\* The document of c whose _id is ObjectID i, EmptyM when there is none.
DocWithID(c, i) ==
    IF \E k \in 1..Len(c) : c[k]["_id"] = Oid(i)
    THEN c[CHOOSE k \in 1..Len(c) : c[k]["_id"] = Oid(i)]
    ELSE EmptyM

\* c without its i-th document.
RemoveAt(c, i) == SubSeq(c, 1, i - 1) \o SubSeq(c, i + 1, Len(c))

\* ------------------------------------------------------------------ deadlines

\* A 64-bit word as its 8 bytes, least significant first.  U64(n) is the word
\* of a small natural number.
U64(n) == [i \in 1..8 |-> IF i <= 4 THEN (n \div (256 ^ (i - 1))) % 256 ELSE 0]

\* time.Second: 1000000000 nanoseconds, as a time.Duration (an int64).
Second == U64(1000000000)

RECURSIVE ColumnSum(_, _, _, _)
\* The sum of the byte products a[i] * b[j] of column k (i + j = k + 1), from i on.
ColumnSum(a, b, k, i) ==
    IF i > Len(a) THEN 0
    ELSE (IF (k + 1 - i) \in 1..Len(b) THEN a[i] * b[k + 1 - i] ELSE 0)
         + ColumnSum(a, b, k, i + 1)

RECURSIVE MulLoop(_, _, _, _, _)
MulLoop(a, b, k, carry, out) ==
    IF k > Len(a) + Len(b) THEN out
    ELSE MulLoop(a, b, k + 1, (ColumnSum(a, b, k, 1) + carry) \div 256,
                 Append(out, (ColumnSum(a, b, k, 1) + carry) % 256))

\* The full product of two words: 16 bytes.
Mul(a, b) == MulLoop(a, b, 1, 0, <<>>)

\* Go's int64 multiplication: the low 64 bits of the product.
Mul64(a, b) == SubSeq(Mul(a, b), 1, 8)

\* The sign of an int64, and the order of two int64 values.
IsNeg(x) == x[8] >= 128
ULess(a, b) == \E i \in 1..Len(a) : a[i] < b[i] /\ \A j \in (i + 1)..Len(a) : a[j] = b[j]
Less64(a, b) == IF IsNeg(a) # IsNeg(b) THEN IsNeg(a) ELSE ULess(a, b)

\* time.Duration(m.SecondsTimeoutExecution) * time.Second: the conversion of
\* the uint keeps its bits, the multiplication wraps.
TimeoutDuration(secs) == Mul64(secs, Second)

\* Deadlines are offsets from the instant of the call, in nanoseconds (int64).
NoDeadline == <<>>

\* context.WithDeadline(parent, d): the parent's deadline when it is earlier.
WithDeadline(parent, d) == IF parent # NoDeadline /\ Less64(parent, d) THEN parent ELSE d

\* context.WithTimeout(parent, timeout) is WithDeadline(parent, time.Now().Add(timeout)).
WithTimeout(parent, timeout) == WithDeadline(parent, timeout)

\* The largest number of seconds whose nanoseconds fit an int64, and the next.
MaxSecondsInt64 == <<4, 125, 193, 37, 2, 0, 0, 0>>
OverMaxSecondsInt64 == <<5, 125, 193, 37, 2, 0, 0, 0>>
MaxUint == [i \in 1..8 |-> 255]

\* Values of Cfg.SecondsTimeoutExecution: 0, the tests' 3, 30, and the large ones.
TimeoutConfigs == { U64(0), U64(3), U64(30), MaxSecondsInt64, OverMaxSecondsInt64, MaxUint }

\* Deadlines of the ctx a caller passes: none (context.Background()), or 1 s
\* or 10 s from the call.
CallerDeadlines == { NoDeadline, Mul64(U64(1), Second), Mul64(U64(10), Second) }

NoCtx == [op |-> "none", deadline |-> NoDeadline]

\* ------------------------------------------------------------------ callers

\* The goroutines that call methods of one shared *Client.
Callers == {"a", "b"}

\* A memory location: a field of the shared facade (owner "m"), or a local
\* variable or argument of the call of one caller.
Loc(name, owner) == [name |-> name, owner |-> owner]
Read(name, owner) == [loc |-> Loc(name, owner), mode |-> "read"]
Write(name, owner) == [loc |-> Loc(name, owner), mode |-> "write"]

\* ------------------------------------------------------------------ state

VARIABLES
    coll,      \* the configured collection on the server, in natural order
    nextOid,   \* the next ObjectID the driver generates
    conn,      \* the facade's client handle: "none" (no facade), "created",
               \* "connected", "disconnected"
    impl,      \* which NewMongo built the facade: "Client" or "MoInstance"
    dialOpen,  \* TRUE when a connection NewMongo dialed with mongo.Connect is open
    call,      \* the call that has just returned, with its arguments and what
               \* it returned; NoCall once the caller has taken the result
    prev,      \* the collection as it was when the last call began
    inserted   \* history: ObjectID -> the payload InsertOne stored under it, for
               \* the documents no later call has changed or removed

\* The deadline of a call's context (context.WithTimeout in every method).
VARIABLES
    timeoutSecs,     \* Cfg.SecondsTimeoutExecution: a uint, as its 8 bytes
    parentDeadline,  \* the deadline of the ctx the caller passes, NoDeadline for none
    ctxLocal         \* the method that last derived ctxLocal, and ctxLocal's deadline

dvars == <<timeoutSecs, parentDeadline, ctxLocal>>

\* Callers that share one facade, one goroutine each.
VARIABLES
    threads   \* caller -> the call it is in: position, arguments, locals, and the
              \* memory accesses the call has made so far

vars == <<coll, nextOid, conn, impl, dialOpen, call, prev, inserted, dvars, threads>>

\* Updates given to UpdateByID / UpdateOne / UpdateMany: bson.M values built by
\* the caller.  The last one has no update operator (the driver rejects it).
SetUpdate(S) == [o \in {"$set"} |-> S]
Updates == { SetUpdate([f \in {"Age"} |-> I32(45)]), [f \in {"Age"} |-> I32(45)] }

\* Filters given as primitive.M to FindManyFilterBSON / UpdateOne.
EqFilter(f, v) == [g \in {f} |-> [o \in {"$eq"} |-> v]]
BSONFilters == { EmptyM, EqFilter("Age", I32(44)) }

\* Identifiers a caller can hold: the zero value and the generated ones.
ObjectIDs == { Oid(i) : i \in 0..MaxOid }

NoPayload == JText("absent")

NoCall ==
    [op |-> "none", data |-> NoPayload, oid |-> ZeroID, flt |-> EmptyM, upd |-> EmptyM,
     id |-> ZeroID, res |-> <<>>, resNil |-> TRUE, cnt |-> 0,
     decoded |-> 0, err |-> NoErr, cause |-> "nil", ndrv |-> 0, path |-> "none",
     ctxLive |-> FALSE, fault |-> "none", connected |-> FALSE]

\* A caller that is in no call.
IdleThread ==
    [pc |-> "idle", op |-> "none", data |-> NoPayload, dataM |-> EmptyM, ctx |-> "none",
     err |-> NoErr, res |-> <<>>, cnt |-> 0, seen |-> {}, acc |-> {}]

Init ==
    /\ coll = <<>>
    /\ nextOid = 1
    /\ conn = "none"
    /\ impl = "none"
    /\ dialOpen = FALSE
    /\ call = NoCall
    /\ prev = <<>>
    /\ inserted = NoMembers
    /\ timeoutSecs = U64(3)
    /\ parentDeadline = NoDeadline
    /\ ctxLocal = NoCtx
    /\ threads = [p \in Callers |-> IdleThread]

\* ------------------------------------------------------------------ driver

DriverErrorIgnoresState(fault) == fault

\* The error a driver operation fails with before reaching the server, "none"
\* when it reaches it: a client that is not connected fails every operation
\* with ErrClientDisconnected; otherwise the fault decides.
DriverError(fault) == IF conn # "connected" THEN "ErrClientDisconnected" ELSE fault

\* The _id the driver sends: the document's own, or a fresh ObjectID.
EnsureID(doc) == IF "_id" \in DOMAIN doc THEN doc["_id"] ELSE Oid(nextOid)

WithID(doc, id) == [f \in DOMAIN doc \cup {"_id"} |-> IF f = "_id" THEN id ELSE doc[f]]

\* collection.InsertOne: [result, err, coll, nextOid]; result is the
\* InsertedID, NilValue for a nil *InsertOneResult.  Under write concern w=0
\* (set in the URL) the driver returns the result together with
\* ErrUnacknowledgedWrite.
DriverInsertOne(doc, fault) ==
    LET id == EnsureID(doc)
        used == IF "_id" \in DOMAIN doc THEN nextOid ELSE nextOid + 1
        stored == Append(coll, WithID(doc, id))
    IN  CASE DriverError(fault) \notin {"none", "ErrUnacknowledgedWrite"} ->
                [result |-> NilValue, err |-> DriverError(fault), coll |-> coll,
                 nextOid |-> nextOid, calls |-> 1]
          [] DriverError(fault) = "ErrUnacknowledgedWrite" ->
                IF \E i \in 1..Len(coll) : coll[i]["_id"] = id
                THEN [result |-> id, err |-> "ErrUnacknowledgedWrite", coll |-> coll,
                      nextOid |-> nextOid, calls |-> 1]
                ELSE [result |-> id, err |-> "ErrUnacknowledgedWrite", coll |-> stored,
                      nextOid |-> used, calls |-> 1]
          [] DriverError(fault) = "none" /\ (\E i \in 1..Len(coll) : coll[i]["_id"] = id) ->
                [result |-> NilValue, err |-> "DuplicateKey", coll |-> coll,
                 nextOid |-> nextOid, calls |-> 1]
          [] OTHER ->
                [result |-> id, err |-> "nil", coll |-> stored, nextOid |-> used, calls |-> 1]

\* collection.FindOne(...).Decode(&result): the first match, or ErrNoDocuments.
DriverFindOne(filter, fault) ==
    CASE DriverError(fault) # "none" -> [res |-> <<>>, err |-> DriverError(fault), calls |-> 1]
      [] DriverError(fault) = "none" /\ FirstMatch(coll, filter) = 0 ->
            [res |-> <<>>, err |-> "ErrNoDocuments", calls |-> 1]
      [] OTHER -> [res |-> <<coll[FirstMatch(coll, filter)]>>, err |-> "nil", calls |-> 1]

\* collection.Find: a cursor over the matching documents.
DriverFind(filter, fault) ==
    IF DriverError(fault) # "none"
    THEN [cursor |-> <<>>, err |-> DriverError(fault), calls |-> 1]
    ELSE [cursor |-> Matching(coll, filter), err |-> "nil", calls |-> 1]

\* collection.DeleteOne: removes the first match.
DriverDeleteOne(filter, fault) ==
    CASE DriverError(fault) # "none" ->
            [calls |-> 1, cnt |-> 0, err |-> DriverError(fault), coll |-> coll]
      [] DriverError(fault) = "none" /\ FirstMatch(coll, filter) = 0 ->
            [calls |-> 1, cnt |-> 0, err |-> "nil", coll |-> coll]
      [] OTHER ->
            [calls |-> 1, cnt |-> 1, err |-> "nil",
             coll |-> RemoveAt(coll, FirstMatch(coll, filter))]

\* collection.DeleteMany: removes every match.
DriverDeleteMany(filter, fault) ==
    IF DriverError(fault) # "none"
    THEN [calls |-> 1, cnt |-> 0, err |-> DriverError(fault), coll |-> coll]
    ELSE [calls |-> 1, cnt |-> Len(Matching(coll, filter)), err |-> "nil",
          coll |-> SelectSeq(coll, LAMBDA d : ~Matches(d, filter))]

\* An update document must consist of update operators.
IsOperatorUpdate(update) == DOMAIN update = {"$set"}

\* $set: the named fields take the given values, the others stay.
ApplyUpdate(doc, update) ==
    [f \in DOMAIN doc \cup DOMAIN update["$set"] |->
        IF f \in DOMAIN update["$set"] THEN update["$set"][f] ELSE doc[f]]

\* collection.UpdateOne: updates the first match.  cnt is MatchedCount.
DriverUpdateOne(filter, update, fault) ==
    CASE ~IsOperatorUpdate(update) ->
            [calls |-> 1, cnt |-> 0, err |-> "InvalidUpdate", coll |-> coll]
      [] IsOperatorUpdate(update) /\ DriverError(fault) # "none" ->
            [calls |-> 1, cnt |-> 0, err |-> DriverError(fault), coll |-> coll]
      [] IsOperatorUpdate(update) /\ DriverError(fault) = "none"
            /\ FirstMatch(coll, filter) = 0 ->
            [calls |-> 1, cnt |-> 0, err |-> "nil", coll |-> coll]
      [] OTHER ->
            [calls |-> 1, cnt |-> 1, err |-> "nil",
             coll |-> [coll EXCEPT ![FirstMatch(coll, filter)] = ApplyUpdate(@, update)]]

\* collection.UpdateMany: updates every match.
DriverUpdateMany(filter, update, fault) ==
    CASE ~IsOperatorUpdate(update) ->
            [calls |-> 1, cnt |-> 0, err |-> "InvalidUpdate", coll |-> coll]
      [] IsOperatorUpdate(update) /\ DriverError(fault) # "none" ->
            [calls |-> 1, cnt |-> 0, err |-> DriverError(fault), coll |-> coll]
      [] OTHER ->
            [calls |-> 1, cnt |-> Len(Matching(coll, filter)), err |-> "nil",
             coll |-> [i \in 1..Len(coll) |->
                        IF Matches(coll[i], filter) THEN ApplyUpdate(coll[i], update)
                        ELSE coll[i]]]

\* ------------------------------------------------------------------ facade

\* What a call returns and leaves behind, before the call fills it in.  cause
\* is the error of the driver call made ("nil" when it made none or the call
\* succeeded), ndrv the number of driver operations dispatched, path the exit
\* taken, decoded the documents read from a cursor.
R0 ==
    [coll |-> coll, nextOid |-> nextOid, id |-> ZeroID, res |-> <<>>, resNil |-> TRUE,
     cnt |-> 0, decoded |-> 0, err |-> NoErr, cause |-> "nil", ndrv |-> 0, path |-> "ok"]

\* errors.Wrap(err, msg)
Wrap(cause, msg) == [wrap |-> msg, cause |-> cause]

DeferredAfterConversion(op, path) ==
    IF path = "conversion" THEN {}
    ELSE IF op \in {"FindManyFilterJSON", "FindManyFilterBSON"} /\ path # "driver"
         THEN {"cancel", "cursor.Close"}
         ELSE {"cancel"}

\* The deferred functions that run when a method leaves by `path`, a panic
\* included: defer cancel() is registered right after context.WithTimeout,
\* before any return; the find-many methods also defer cursor.Close once
\* Find has returned a cursor.
Deferred(op, path) ==
    IF op \in {"FindManyFilterJSON", "FindManyFilterBSON"} /\ path \notin {"conversion", "driver"}
    THEN {"cancel", "cursor.Close"}
    ELSE {"cancel"}

\* if errConv != nil { return ..., errConv }
ConversionFailed(conv) == [R0 EXCEPT !.err = conv.err, !.path = "conversion"]

\* Client.InsertOne after the driver call: an error or a nil result returns
\* the zero identifier with errInsert; otherwise the InsertedID is asserted to
\* be an ObjectID, which panics when it is not.
InsertOneReturn(ins) ==
    LET r == [R0 EXCEPT !.coll = ins.coll, !.nextOid = ins.nextOid, !.ndrv = ins.calls,
                        !.cause = ins.err]
    IN  CASE ins.err # "nil" \/ ins.result = NilValue ->
                [r EXCEPT !.err = Err(ins.err), !.path = "driver"]
          [] ins.err = "nil" /\ ins.result # NilValue /\ ins.result.t # "objectID" ->
                [r EXCEPT !.path = "panic"]
          [] OTHER -> [r EXCEPT !.id = ins.result]

\* MoInstance.InsertOne after the driver call: a nil result returns the zero
\* identifier with errInsert; otherwise the asserted InsertedID is returned
\* together with errInsert.
InsertOneReturnMoInstance(ins) ==
    LET r == [R0 EXCEPT !.coll = ins.coll, !.nextOid = ins.nextOid, !.ndrv = ins.calls,
                        !.cause = ins.err]
    IN  CASE ins.result = NilValue -> [r EXCEPT !.err = Err(ins.err), !.path = "driver"]
          [] ins.result # NilValue /\ ins.result.t # "objectID" -> [r EXCEPT !.path = "panic"]
          [] OTHER ->
                [r EXCEPT !.id = ins.result, !.err = Err(ins.err),
                          !.path = IF ins.err = "nil" THEN "ok" ELSE "driver"]

InsertOneCall(data, fault) ==
    LET conv == jsonToBsonM(data)
    IN  IF conv.err # NoErr THEN ConversionFailed(conv)
        ELSE IF impl = "Client" THEN InsertOneReturn(DriverInsertOne(conv.result, fault))
        ELSE InsertOneReturnMoInstance(DriverInsertOne(conv.result, fault))

FindOneReturnSwallows(found) ==
    [R0 EXCEPT !.ndrv = found.calls, !.cause = found.err, !.res = found.res,
               !.resNil = found.res = <<>>]

\* if errFind != nil { return nil, errFind }; return result, nil
FindOneReturn(found) ==
    IF found.err # "nil"
    THEN [R0 EXCEPT !.ndrv = found.calls, !.cause = found.err, !.err = Err(found.err),
                    !.path = "driver"]
    ELSE [R0 EXCEPT !.ndrv = found.calls, !.res = found.res, !.resNil = FALSE]

FindOneCall(filter, fault) ==
    LET conv == jsonToBsonM(filter)
    IN  IF conv.err # NoErr THEN ConversionFailed(conv)
        ELSE FindOneReturn(DriverFindOne(conv.result, fault))

\* bson.M{"_id": bson.M{"$eq": objectID}}
FilterByID(objectID) == EqFilter("_id", objectID)

FindByIDCall(objectID, fault) == FindOneReturn(DriverFindOne(FilterByID(objectID), fault))

\* A cursor fault: after `at` documents were read, the next decode fails
\* ("decode") or the cursor itself fails ("cursor"); "none" for no fault.
NoCursorFault == [kind |-> "none", at |-> 0]
CursorFaults(n) ==
    {NoCursorFault} \cup { [kind |-> "decode", at |-> k] : k \in 0..(n - 1) }
                    \cup { [kind |-> "cursor", at |-> k] : k \in 0..n }

RECURSIVE walkLoop(_, _, _, _)
\* The loop of walkMongoSet with i - 1 documents appended to result:
\* cursor.Next is false at the end of the cursor or when the cursor fails,
\* and cursor.Err then tells which; a failed decode returns at once.
walkLoop(cursor, cf, i, result) ==
    CASE cf.kind = "cursor" /\ cf.at = i - 1 ->
            [R0 EXCEPT !.cause = "NetworkError", !.decoded = i - 1,
                       !.err = Wrap("NetworkError", "cursor error"), !.path = "cursor"]
      [] ~(cf.kind = "cursor" /\ cf.at = i - 1) /\ i > Len(cursor) ->
            [R0 EXCEPT !.decoded = i - 1, !.res = result,
                       !.resNil = result = <<>>]
      [] ~(cf.kind = "cursor" /\ cf.at = i - 1) /\ i <= Len(cursor)
            /\ cf.kind = "decode" /\ cf.at = i - 1 ->
            [R0 EXCEPT !.cause = "DecodeError", !.decoded = i - 1,
                       !.err = Wrap("DecodeError", "could not decode into buffer"),
                       !.path = "decode"]
      [] OTHER -> walkLoop(cursor, cf, i + 1, Append(result, cursor[i]))

walkMongoSetDropsLast(cursor, cf) ==
    walkLoop(SubSeq(cursor, 1, Len(cursor) - 1), NoCursorFault, 1, <<>>)

walkMongoSetKeepsPartial(cursor, cf) ==
    LET r == walkLoop(cursor, cf, 1, <<>>)
    IN  IF r.path \in {"decode", "cursor"}
        THEN [r EXCEPT !.res = SubSeq(cursor, 1, r.decoded), !.resNil = r.decoded = 0]
        ELSE r

\* walkMongoSet: every document of the cursor, or nil and the wrapped error.
walkMongoSet(cursor, cf) == walkLoop(cursor, cf, 1, <<>>)

\* if errFind != nil { return nil, errFind }; return walkMongoSet(ctxLocal, cursor)
FindManyReturn(found, cf) ==
    IF found.err # "nil"
    THEN [R0 EXCEPT !.ndrv = found.calls, !.cause = found.err, !.err = Err(found.err),
                    !.path = "driver"]
    ELSE [walkMongoSet(found.cursor, cf) EXCEPT !.ndrv = found.calls]

FindManyFilterJSONCall(filterJSON, fault, cf) ==
    LET conv == jsonToBsonM(filterJSON)
    IN  IF conv.err # NoErr THEN ConversionFailed(conv)
        ELSE FindManyReturn(DriverFind(conv.result, fault), cf)

FindManyFilterBSONCall(filterBSON, fault, cf) ==
    FindManyReturn(DriverFind(filterBSON, fault), cf)

\* return <driver call>: the driver's result and error, as they are.
PassThrough(out) ==
    [R0 EXCEPT !.coll = out.coll, !.cnt = out.cnt, !.resNil = out.err # "nil",
               !.ndrv = out.calls,
               !.cause = out.err, !.err = Err(out.err),
               !.path = IF out.err = "nil" THEN "ok" ELSE "driver"]

DeleteOneDispatchMany(bsonFilter, fault) == DriverDeleteMany(bsonFilter, fault)

DeleteOneDispatchRetries(bsonFilter, fault) ==
    IF DriverDeleteOne(bsonFilter, fault).err = "nil"
    THEN DriverDeleteOne(bsonFilter, fault)
    ELSE [DriverDeleteOne(bsonFilter, fault) EXCEPT !.calls = 2]

\* Collection(...).DeleteOne(ctxLocal, bsonFilter)
DeleteOneDispatch(bsonFilter, fault) == DriverDeleteOne(bsonFilter, fault)

DeleteOneCall(filter, fault) ==
    LET conv == jsonToBsonM(filter)
    IN  IF conv.err # NoErr THEN ConversionFailed(conv)
        ELSE PassThrough(DeleteOneDispatch(conv.result, fault))

DeleteAllDispatchOne(bsonFilter, fault) == DriverDeleteOne(bsonFilter, fault)

\* Collection(...).DeleteMany(ctxLocal, bsonFilter)
DeleteAllDispatch(bsonFilter, fault) == DriverDeleteMany(bsonFilter, fault)

DeleteAllCall(filter, fault) ==
    LET conv == jsonToBsonM(filter)
    IN  IF conv.err # NoErr THEN ConversionFailed(conv)
        ELSE PassThrough(DeleteAllDispatch(conv.result, fault))

UpdateByIDFilterAny(id) == EmptyM

\* bson.M{"_id": bson.M{"$eq": id}}
UpdateByIDFilter(id) == EqFilter("_id", id)

UpdateByIDCall(id, newValue, fault) ==
    PassThrough(DriverUpdateOne(UpdateByIDFilter(id), newValue, fault))

UpdateOneCall(filter, newValue, fault) ==
    PassThrough(DriverUpdateOne(filter, newValue, fault))

UpdateManyCall(filter, newValue, fault) ==
    LET conv == jsonToBsonM(filter)
    IN  IF conv.err # NoErr THEN ConversionFailed(conv)
        ELSE PassThrough(DriverUpdateMany(conv.result, newValue, fault))

\* ------------------------------------------------------------------ actions

\* A call of a facade method returns: the collection and the call record
\* take what the call computed; the handle and the configuration are only read.
Finish(op, data, oid, flt, upd, fault, r) ==
    /\ call = NoCall
    /\ coll' = r.coll
    /\ nextOid' = r.nextOid
    /\ prev' = coll
    /\ call' = [op |-> op, data |-> data, oid |-> oid, flt |-> flt, upd |-> upd,
                id |-> r.id, res |-> r.res, resNil |-> r.resNil, cnt |-> r.cnt,
                decoded |-> r.decoded, err |-> r.err, cause |-> r.cause, ndrv |-> r.ndrv,
                path |-> r.path, ctxLive |-> "cancel" \notin Deferred(op, r.path),
                fault |-> fault, connected |-> conn = "connected"]
    /\ inserted' =
            LET kept == { i \in DOMAIN inserted : DocWithID(r.coll, i) = DocWithID(coll, i) }
                new == IF op = "InsertOne" /\ r.err = NoErr /\ r.path = "ok"
                       THEN {r.id.n} ELSE {}
            IN  [i \in kept \cup new |-> IF i \in new THEN data ELSE inserted[i]]
    /\ UNCHANGED <<conn, impl, dialOpen, dvars, threads>>

\* A call of the constructor or of a lifecycle method returns.
FinishLifecycle(op, err, cause, path) ==
    /\ call = NoCall
    /\ prev' = coll
    /\ call' = [NoCall EXCEPT !.op = op, !.err = err, !.cause = cause, !.path = path,
                              !.resNil = err # NoErr, !.connected = conn = "connected"]
    /\ UNCHANGED <<coll, nextOid, inserted, dvars, threads>>

\* MoInstance's NewMongo: result, _ := mongo.NewClient(...);
\* if result == nil { return nil, errors.New("?") }
NewClientFailedMoInstance(errClient) == Wrap("nil", "?")

\* Client's NewMongo: if errClient != nil || result == nil { return nil, errClient }
NewClientFailed(errClient) == Err(errClient)

\* NewMongo of either snapshot.  mongo.Connect dials `instance`, Ping checks
\* it, and mongo.NewClient builds the handle the facade keeps; `instance`
\* is not disconnected on any path.
NewMongoAs(snapshot, errConnect, errPing, errClient) ==
    /\ conn = "none"
    /\ CASE errConnect # "nil" ->
                /\ FinishLifecycle("NewMongo", Err(errConnect), errConnect, "driver")
                /\ UNCHANGED <<conn, impl, dialOpen>>
          [] errConnect = "nil" /\ errPing # "nil" ->
                /\ FinishLifecycle("NewMongo", Err(errPing), errPing, "driver")
                /\ dialOpen' = TRUE
                /\ UNCHANGED <<conn, impl>>
          [] errConnect = "nil" /\ errPing = "nil" /\ errClient # "nil" ->
                /\ FinishLifecycle("NewMongo",
                                   IF snapshot = "Client" THEN NewClientFailed(errClient)
                                   ELSE NewClientFailedMoInstance(errClient),
                                   errClient, "driver")
                /\ dialOpen' = TRUE
                /\ UNCHANGED <<conn, impl>>
          [] OTHER ->
                /\ FinishLifecycle("NewMongo", NoErr, "nil", "ok")
                /\ dialOpen' = TRUE
                /\ conn' = "created"
                /\ impl' = snapshot

\* What the three driver calls of NewMongo can return.  ApplyURI resolves a
\* mongodb+srv URL anew each time it is called, so mongo.NewClient can fail
\* on a URL mongo.Connect accepted.
ConnectErrors == {"nil", "InvalidURI"}
PingErrors == {"nil", "DeadlineExceeded"}
NewClientErrors == {"nil", "SRVLookupFailed"}

\* NewMongo of type Client.
NewMongo ==
    \E errConnect \in ConnectErrors, errPing \in PingErrors, errClient \in NewClientErrors :
        NewMongoAs("Client", errConnect, errPing, errClient)

\* NewMongo of type MoInstance.
NewMongoMoInstance ==
    \E errConnect \in ConnectErrors, errPing \in PingErrors, errClient \in NewClientErrors :
        NewMongoAs("MoInstance", errConnect, errPing, errClient)

\* m.client.Connect(ctx): a handle that is already connected refuses.
Connect ==
    /\ conn # "none"
    /\ IF conn = "connected"
       THEN /\ FinishLifecycle("Connect", Err("ErrTopologyConnected"),
                               "ErrTopologyConnected", "driver")
            /\ UNCHANGED <<conn, impl, dialOpen>>
       ELSE /\ FinishLifecycle("Connect", NoErr, "nil", "ok")
            /\ conn' = "connected"
            /\ UNCHANGED <<impl, dialOpen>>

\* m.client.Disconnect(ctx): a handle that is not connected refuses.
Disconnect ==
    /\ conn # "none"
    /\ IF conn # "connected"
       THEN /\ FinishLifecycle("Disconnect", Err("ErrClientDisconnected"),
                               "ErrClientDisconnected", "driver")
            /\ UNCHANGED <<conn, impl, dialOpen>>
       ELSE /\ FinishLifecycle("Disconnect", NoErr, "nil", "ok")
            /\ conn' = "disconnected"
            /\ UNCHANGED <<impl, dialOpen>>

\* The driver can still generate an ObjectID for this document.
CanInsert(data) == "_id" \in DOMAIN jsonToBsonM(data).result \/ nextOid <= MaxOid

InsertOne ==
    \E data \in Payloads, fault \in FaultsOf(InsertFaults, conn) :
        /\ conn # "none"
        /\ CanInsert(data)
        /\ Finish("InsertOne", data, ZeroID, EmptyM, EmptyM, fault, InsertOneCall(data, fault))

FindOne ==
    \E filter \in Payloads, fault \in FaultsOf(Faults, conn) :
        /\ conn # "none"
        /\ Finish("FindOne", filter, ZeroID, EmptyM, EmptyM, fault, FindOneCall(filter, fault))

FindByID ==
    \E objectID \in ObjectIDs, fault \in FaultsOf(Faults, conn) :
        /\ conn # "none"
        /\ Finish("FindByID", NoPayload, objectID, EmptyM, EmptyM, fault,
                  FindByIDCall(objectID, fault))

FindManyFilterJSON ==
    \E filterJSON \in Payloads, fault \in FaultsOf(Faults, conn) :
      \E cf \in CursorFaults(Len(DriverFind(jsonToBsonM(filterJSON).result, fault).cursor)) :
        /\ conn # "none"
        /\ Finish("FindManyFilterJSON", filterJSON, ZeroID, EmptyM, EmptyM, fault,
                  FindManyFilterJSONCall(filterJSON, fault, cf))

FindManyFilterBSON ==
    \E filterBSON \in BSONFilters, fault \in FaultsOf(Faults, conn) :
      \E cf \in CursorFaults(Len(DriverFind(filterBSON, fault).cursor)) :
        /\ conn # "none"
        /\ Finish("FindManyFilterBSON", NoPayload, ZeroID, filterBSON, EmptyM, fault,
                  FindManyFilterBSONCall(filterBSON, fault, cf))

DeleteOne ==
    \E filter \in Payloads, fault \in FaultsOf(Faults, conn) :
        /\ conn # "none"
        /\ Finish("DeleteOne", filter, ZeroID, EmptyM, EmptyM, fault,
                  DeleteOneCall(filter, fault))

DeleteAll ==
    \E filter \in Payloads, fault \in FaultsOf(Faults, conn) :
        /\ conn # "none"
        /\ Finish("DeleteAll", filter, ZeroID, EmptyM, EmptyM, fault,
                  DeleteAllCall(filter, fault))

UpdateByID ==
    \E id \in ObjectIDs, newValue \in Updates, fault \in FaultsOf(Faults, conn) :
        /\ conn # "none"
        /\ Finish("UpdateByID", NoPayload, id, EmptyM, newValue, fault,
                  UpdateByIDCall(id, newValue, fault))

UpdateOne ==
    \E filter \in BSONFilters, newValue \in Updates, fault \in FaultsOf(Faults, conn) :
        /\ conn # "none"
        /\ Finish("UpdateOne", NoPayload, ZeroID, filter, newValue, fault,
                  UpdateOneCall(filter, newValue, fault))

UpdateMany ==
    \E filter \in Payloads, newValue \in Updates, fault \in FaultsOf(Faults, conn) :
        /\ conn # "none"
        /\ Finish("UpdateMany", filter, ZeroID, EmptyM, newValue, fault,
                  UpdateManyCall(filter, newValue, fault))

\* The caller takes what the call returned and goes on to its next call.
Proceed ==
    /\ call # NoCall
    /\ call' = NoCall
    /\ prev' = coll
    /\ UNCHANGED <<coll, nextOid, conn, impl, dialOpen, inserted, dvars, threads>>

Next ==
    \/ Proceed
    \/ NewMongo
    \/ NewMongoMoInstance
    \/ Connect
    \/ Disconnect
    \/ InsertOne
    \/ FindOne
    \/ FindByID
    \/ FindManyFilterJSON
    \/ FindManyFilterBSON
    \/ DeleteOne
    \/ DeleteAll
    \/ UpdateByID
    \/ UpdateOne
    \/ UpdateMany

Spec == Init /\ [][Next]_vars

\* ------------------------------------------------------------------ the deadline of a call

\* The variables of the collection and the handle.
svars == <<coll, nextOid, conn, impl, dialOpen, call, prev, inserted>>

\* The configuration is any of TimeoutConfigs; nothing has been called.
InitDeadline ==
    /\ coll = <<>>
    /\ nextOid = 1
    /\ conn = "none"
    /\ impl = "none"
    /\ dialOpen = FALSE
    /\ call = NoCall
    /\ prev = <<>>
    /\ inserted = NoMembers
    /\ timeoutSecs \in TimeoutConfigs
    /\ parentDeadline = NoDeadline
    /\ ctxLocal = NoCtx
    /\ threads = [p \in Callers |-> IdleThread]

\* The caller prepares the ctx of its next call.
CallerContext ==
    \E deadline \in CallerDeadlines :
        /\ ctxLocal = NoCtx
        /\ parentDeadline' = deadline
        /\ UNCHANGED <<svars, timeoutSecs, ctxLocal, threads>>

\* The first statement of every method:
\* ctxLocal, cancel := context.WithTimeout(ctx, time.Duration(m.SecondsTimeoutExecution)*time.Second)
DeriveContext ==
    \E op \in {"InsertOne", "FindOne", "FindByID", "FindManyFilterJSON", "FindManyFilterBSON",
                "DeleteOne", "DeleteAll", "UpdateByID", "UpdateOne", "UpdateMany"} :
        /\ ctxLocal = NoCtx
        /\ ctxLocal' = [op |-> op,
                        deadline |-> WithTimeout(parentDeadline, TimeoutDuration(timeoutSecs))]
        /\ UNCHANGED <<svars, timeoutSecs, parentDeadline, threads>>

\* The method returns: defer cancel().
CancelContext ==
    /\ ctxLocal # NoCtx
    /\ ctxLocal' = NoCtx
    /\ UNCHANGED <<svars, timeoutSecs, parentDeadline, threads>>

NextDeadline ==
    \/ CallerContext
    \/ DeriveContext
    \/ CancelContext

SpecDeadline == InitDeadline /\ [][NextDeadline]_vars

\* ------------------------------------------------------------------ payloads with their own _id

\* {"_id":"x","Name":"john"} and {"_id":7,"Name":"john"}: the document names
\* its own _id, a string or a number.
OwnID(id) == [f \in {"_id", "Name"} |-> IF f = "_id" THEN id ELSE JStr("john")]
OwnIDPayloads == { JObj(OwnID(JStr("x"))), JObj(OwnID(JNum(7))), Marshal(Person("john", "male", 44)) }

\* A facade of either snapshot that is constructed and connected, its
\* collection empty.
InitOwnID ==
    /\ coll = <<>>
    /\ nextOid = 1
    /\ conn = "connected"
    /\ impl \in {"Client", "MoInstance"}
    /\ dialOpen = TRUE
    /\ call = NoCall
    /\ prev = <<>>
    /\ inserted = NoMembers
    /\ timeoutSecs = U64(3)
    /\ parentDeadline = NoDeadline
    /\ ctxLocal = NoCtx
    /\ threads = [p \in Callers |-> IdleThread]

\* InsertOne with a payload of OwnIDPayloads.
InsertOneOwnID ==
    \E data \in OwnIDPayloads, fault \in FaultsOf(InsertFaults, conn) :
        /\ CanInsert(data)
        /\ Finish("InsertOne", data, ZeroID, EmptyM, EmptyM, fault, InsertOneCall(data, fault))

\* The caller goes on to its next call, unless the call panicked: a panic in
\* the type assertion is not recovered and ends the process.
ProceedOwnID ==
    /\ call.path # "panic"
    /\ Proceed

NextOwnID ==
    \/ InsertOneOwnID
    \/ ProceedOwnID

SpecOwnID == InitOwnID /\ [][NextOwnID]_vars

\* ------------------------------------------------------------------ payloads with large numbers

\* A record whose Age is the given number: {"Name":"john","Gender":"male","Age":<age>}
Aged(age) ==
    [f \in {"Name", "Gender", "Age"} |->
        CASE f = "Name" -> JStr("john") [] f = "Gender" -> JStr("male") [] OTHER -> age]

\* Payloads whose Age is 44, 2^53 = 9007199254740992, 2^53 + 1 and 2^53 + 3.
NumberPayloads ==
    { Marshal(Aged(JNum(44))), Marshal(Aged(JBig(2 ^ 23, 0))), Marshal(Aged(JBig(2 ^ 23, 1))),
      Marshal(Aged(JBig(2 ^ 23, 3))) }

\* A facade of either snapshot that is constructed and connected, its
\* collection empty.
InitNumbers ==
    /\ coll = <<>>
    /\ nextOid = 1
    /\ conn = "connected"
    /\ impl \in {"Client", "MoInstance"}
    /\ dialOpen = TRUE
    /\ call = NoCall
    /\ prev = <<>>
    /\ inserted = NoMembers
    /\ timeoutSecs = U64(3)
    /\ parentDeadline = NoDeadline
    /\ ctxLocal = NoCtx
    /\ threads = [p \in Callers |-> IdleThread]

\* InsertOne with a payload of NumberPayloads.
InsertOneNumbers ==
    \E data \in NumberPayloads, fault \in FaultsOf(InsertFaults, conn) :
        /\ CanInsert(data)
        /\ Finish("InsertOne", data, ZeroID, EmptyM, EmptyM, fault, InsertOneCall(data, fault))

NextNumbers ==
    \/ InsertOneNumbers
    \/ FindByID
    \/ Proceed

SpecNumbers == InitNumbers /\ [][NextNumbers]_vars

\* ------------------------------------------------------------------ concurrent callers

\* The methods the callers invoke, and their payloads.
ConcurrentOps == {"InsertOne", "FindManyFilterJSON", "DeleteAll"}
ConcurrentPayloads == { Marshal(Person("john", "male", 44)), JObj(OnlyAge(44)), JText("malformed") }

\* ctxLocal, cancel := context.WithTimeout(ctx, time.Duration(m.Cfg.SecondsTimeoutExecution)*time.Second)
ContextAccesses(p) ==
    { Read("Cfg", "m"), Read("SecondsTimeoutExecution", "m"), Read("ctx", p),
      Write("ctxLocal", p) }

ConversionAccessesShared(p) == { Read("jsonRaw", p), Write("result", "m") }

\* jsonToBsonM: var result bson.M; json.Unmarshal(jsonRaw, &result)
ConversionAccesses(p) == { Read("jsonRaw", p), Write("result", p) }

\* m.client.Database(m.Cfg.Database).Collection(m.Cfg.Collection).<op>(ctxLocal, bsonFilter),
\* and for a find the loop of walkMongoSet appending to its own result.
DispatchAccesses(p) ==
    { Read("client", "m"), Read("Cfg", "m"), Read("Database", "m"), Read("Collection", "m"),
      Read("ctxLocal", p), Read("result", p), Write("walkResult", p) }

\* A facade that is constructed and connected, its collection empty, no
\* caller in a call.
InitConcurrent ==
    /\ coll = <<>>
    /\ nextOid = 1
    /\ conn = "connected"
    /\ impl = "Client"
    /\ dialOpen = TRUE
    /\ call = NoCall
    /\ prev = <<>>
    /\ inserted = NoMembers
    /\ timeoutSecs = U64(3)
    /\ parentDeadline = NoDeadline
    /\ ctxLocal = NoCtx
    /\ threads = [p \in Callers |-> IdleThread]

\* Inserts in flight, each of which will take an ObjectID.
InsertsInFlight == Cardinality({ q \in Callers : threads[q].op = "InsertOne" })

\* A caller enters a method, which derives its context.
BeginCall ==
    \E p \in Callers, op \in ConcurrentOps, data \in ConcurrentPayloads :
        /\ threads[p].pc = "idle"
        /\ op = "InsertOne" => nextOid + InsertsInFlight <= MaxOid
        /\ threads' = [threads EXCEPT ![p] =
                [IdleThread EXCEPT !.pc = "derived", !.op = op, !.data = data, !.ctx = p,
                                   !.acc = ContextAccesses(p)]]
        /\ UNCHANGED <<svars, dvars>>

\* The method converts its payload: on an error it is about to return it.
ConvertPayload ==
    \E p \in Callers :
        /\ threads[p].pc = "derived"
        /\ threads' = [threads EXCEPT ![p] =
                [@ EXCEPT !.pc = IF jsonToBsonM(threads[p].data).err = NoErr
                                 THEN "converted" ELSE "done",
                          !.dataM = jsonToBsonM(threads[p].data).result,
                          !.err = jsonToBsonM(threads[p].data).err,
                          !.acc = @ \cup ConversionAccesses(p)]]
        /\ UNCHANGED <<svars, dvars>>

\* What the driver call of thread t, an InsertOne or a Find, returns and
\* leaves behind.
DispatchResult(t) ==
    IF t.op = "InsertOne" THEN InsertOneReturn(DriverInsertOne(t.dataM, "none"))
    ELSE FindManyReturn(DriverFind(t.dataM, "none"), NoCursorFault)

\* The _id values of the documents of c.
IDsIn(c) == { c[i]["_id"] : i \in 1..Len(c) }

\* The method makes its one driver call.  The server executes an insert and
\* a find of this size in one step; a DeleteMany it only begins: it removes
\* the matching documents one at a time, and the calls of other callers can
\* be served in between.
DispatchCall ==
    \E p \in Callers :
        /\ threads[p].pc = "converted"
        /\ IF threads[p].op = "DeleteAll"
           THEN /\ threads' = [threads EXCEPT ![p] =
                        [@ EXCEPT !.pc = "deleting", !.seen = IDsIn(coll),
                                  !.acc = @ \cup DispatchAccesses(p)]]
                /\ UNCHANGED <<coll, nextOid>>
           ELSE /\ coll' = DispatchResult(threads[p]).coll
                /\ nextOid' = DispatchResult(threads[p]).nextOid
                /\ threads' = [threads EXCEPT ![p] =
                        [@ EXCEPT !.pc = "done",
                                  !.err = DispatchResult(threads[p]).err,
                                  !.res = DispatchResult(threads[p]).res,
                                  !.acc = @ \cup DispatchAccesses(p)]]
        /\ UNCHANGED <<conn, impl, dialOpen, call, prev, inserted, dvars>>

\* The server removes the next document matching the filter of a
\* DeleteMany in progress.
DeleteManyStep ==
    \E p \in Callers :
        /\ threads[p].pc = "deleting"
        /\ FirstMatch(coll, threads[p].dataM) # 0
        /\ coll' = RemoveAt(coll, FirstMatch(coll, threads[p].dataM))
        /\ threads' = [threads EXCEPT ![p] = [@ EXCEPT !.cnt = @ + 1]]
        /\ UNCHANGED <<nextOid, conn, impl, dialOpen, call, prev, inserted, dvars>>

\* The DeleteMany returns once no document that was there when it began
\* matches any more; a matching document inserted meanwhile may remain.
DeleteManyReturns ==
    \E p \in Callers :
        /\ threads[p].pc = "deleting"
        /\ \A i \in 1..Len(coll) :
                coll[i]["_id"] \in threads[p].seen => ~Matches(coll[i], threads[p].dataM)
        /\ threads' = [threads EXCEPT ![p] = [@ EXCEPT !.pc = "done"]]
        /\ UNCHANGED <<svars, dvars>>

\* The method returns: defer cancel() runs, the locals of the call are gone.
ReturnCall ==
    \E p \in Callers :
        /\ threads[p].pc = "done"
        /\ threads' = [threads EXCEPT ![p] = IdleThread]
        /\ UNCHANGED <<svars, dvars>>

NextConcurrent ==
    \/ BeginCall
    \/ ConvertPayload
    \/ DispatchCall
    \/ DeleteManyStep
    \/ DeleteManyReturns
    \/ ReturnCall

SpecConcurrent == InitConcurrent /\ [][NextConcurrent]_vars

\* ------------------------------------------------------------------ claims

\* The methods of the facade, and those that take JSON bytes.
FacadeOps ==
    {"InsertOne", "FindOne", "FindByID", "FindManyFilterJSON", "FindManyFilterBSON",
     "DeleteOne", "DeleteAll", "UpdateByID", "UpdateOne", "UpdateMany"}
JSONOps == {"InsertOne", "FindOne", "FindManyFilterJSON", "DeleteOne", "DeleteAll", "UpdateMany"}

\* The spec's error classes, as the errors the code returns: MalformedPayload
\* is an error of encoding/json, NotFound is the driver's ErrNoDocuments.
MalformedPayload(err) == err.cause \in JSONErrors
NotFound(err) == err = Err("ErrNoDocuments")

\* The filter the last call sent, for the methods that take JSON bytes.
SentFilter == jsonToBsonM(call.data).result
Converted == jsonToBsonM(call.data).err = NoErr

\* The call reached the server: its payload, if it takes one, converted (the
\* method returns errConv before the driver call otherwise), the handle was
\* connected and no fault struck.
ReachedServer ==
    /\ call.op \in JSONOps => Converted
    /\ call.connected
    /\ call.fault = "none"

NonMatching(c, filter) == SelectSeq(c, LAMBDA d : ~Matches(d, filter))

\* A returned field carries the value the JSON member had.
SameValue(member, value) ==
    \/ member.k = "string" /\ value.t = "string" /\ value.s = member.s
    \/ member.k = "number" /\ IsNumber(value) /\ value.n = member.n /\ value.h = member.h
SameFields(members, doc) ==
    \A f \in DOMAIN members : f \in DOMAIN doc /\ SameValue(members[f], doc[f])

\* C1: a payload or filter that is malformed JSON, or JSON whose top-level
\* value is not an object (scalar, array, null), makes every method that takes
\* JSON bytes return MalformedPayload without any driver call, so that the
\* collection is unchanged.
C1_NonObjectRejectedBeforeDriver ==
    (call.op \in JSONOps /\ call.data \in NonObjectPayloads)
        => (MalformedPayload(call.err) /\ call.ndrv = 0 /\ coll = prev)

\* C2: once InsertOne(P) has succeeded with identifier I for a JSON object P,
\* and no later call has changed or removed that document, a FindByID(I) that
\* reaches the server returns a nil error and a document whose fields equal
\* the fields of P.
C2_InsertThenFindByID ==
    (/\ call.op = "FindByID"
     /\ call.oid.n \in DOMAIN inserted
     /\ inserted[call.oid.n].k = "object"
     /\ ReachedServer)
        => (/\ call.err = NoErr
            /\ ~call.resNil
            /\ Len(call.res) = 1
            /\ call.res[1]["_id"] = call.oid
            /\ SameFields(inserted[call.oid.n].m, call.res[1]))

C2_Witness ==
    /\ call.op = "FindByID"
    /\ call.oid.n \in DOMAIN inserted
    /\ inserted[call.oid.n] = Marshal(Aged(JBig(2 ^ 23, 1)))
    /\ call.err = NoErr
    /\ Len(call.res) = 1
    /\ call.res[1]["Name"] = Str("john")
    /\ call.res[1]["Age"] = Float64(2 ^ 23, 0)
    /\ Len(coll) = 2

\* A JSON number that is an integer of magnitude at most 2^53.
AtMost2To53(member) ==
    member.k = "number" => (member.h < 2 ^ 23 \/ (member.h = 2 ^ 23 /\ member.n = 0))

\* The same, for the payloads whose numbers are integers of at most 2^53.
C2_HoldsUpTo2To53 ==
    (/\ call.op = "FindByID"
     /\ call.oid.n \in DOMAIN inserted
     /\ inserted[call.oid.n].k = "object"
     /\ \A f \in DOMAIN inserted[call.oid.n].m : AtMost2To53(inserted[call.oid.n].m[f])
     /\ ReachedServer)
        => (/\ call.err = NoErr
            /\ ~call.resNil
            /\ Len(call.res) = 1
            /\ call.res[1]["_id"] = call.oid
            /\ SameFields(inserted[call.oid.n].m, call.res[1]))

\* C3: a successful DeleteOne(F) whose filter matched N >= 1 documents leaves
\* exactly N - 1 documents matching F: the collection is what it was less one
\* document that matched F, every other document in its place and unchanged.
C3_DeleteOneRemovesExactlyOne ==
    (/\ call.op = "DeleteOne"
     /\ call.err = NoErr
     /\ Len(Matching(prev, SentFilter)) >= 1)
        => (/\ Len(Matching(coll, SentFilter)) = Len(Matching(prev, SentFilter)) - 1
            /\ NonMatching(coll, SentFilter) = NonMatching(prev, SentFilter)
            /\ \E i \in 1..Len(prev) :
                    Matches(prev[i], SentFilter) /\ coll = RemoveAt(prev, i))

C3_Witness ==
    /\ call.op = "DeleteOne"
    /\ call.err = NoErr
    /\ call.data = JObj(OnlyAge(44))
    /\ Len(Matching(prev, SentFilter)) = 2
    /\ Len(Matching(coll, SentFilter)) = 1

\* C4: after a successful DeleteAll(F) no document matches F, a following
\* FindManyFilterJSON(F) returns zero documents and a nil error, and every
\* document that did not match F is still there, unchanged.
C4_DeleteAllRemovesEveryMatch ==
    (call.op = "DeleteAll" /\ call.err = NoErr)
        => (/\ Matching(coll, SentFilter) = <<>>
            /\ coll = NonMatching(prev, SentFilter)
            /\ call.cnt = Len(Matching(prev, SentFilter))
            /\ FindManyFilterJSONCall(call.data, "none", NoCursorFault).err = NoErr
            /\ FindManyFilterJSONCall(call.data, "none", NoCursorFault).res = <<>>)

C4_Witness ==
    /\ call.op = "DeleteAll"
    /\ call.err = NoErr
    /\ call.data = JObj(OnlyAge(44))
    /\ Len(prev) = 2
    /\ Len(coll) = 1
    /\ "Age" \in DOMAIN coll[1]
    /\ coll[1]["Age"].n = 45

\* C5: after a successful UpdateByID(I, {$set: S}) the document with
\* identifier I carries the values of S in the fields S names and its other
\* fields unchanged, and every other document is unchanged.
C5_UpdateByIDFrame ==
    (call.op = "UpdateByID" /\ call.err = NoErr)
        => (/\ IsOperatorUpdate(call.upd)
            /\ Len(coll) = Len(prev)
            /\ \A i \in 1..Len(prev) :
                    IF prev[i]["_id"] = call.oid
                    THEN /\ DOMAIN coll[i] = DOMAIN prev[i] \cup DOMAIN call.upd["$set"]
                         /\ \A f \in DOMAIN call.upd["$set"] :
                                coll[i][f] = call.upd["$set"][f]
                         /\ \A f \in DOMAIN prev[i] \ DOMAIN call.upd["$set"] :
                                coll[i][f] = prev[i][f]
                    ELSE coll[i] = prev[i])

C5_Witness ==
    /\ call.op = "UpdateByID"
    /\ call.err = NoErr
    /\ call.cnt = 1
    /\ Len(prev) = 2
    /\ prev[2]["_id"] = call.oid
    /\ DOMAIN prev[1] = {"_id", "Name", "Gender", "Age"}
    /\ DOMAIN prev[2] = {"_id", "Name", "Gender", "Age"}
    /\ prev[1]["Age"] = prev[2]["Age"]
    /\ prev[1]["Name"] = prev[2]["Name"]
    /\ coll[2]["Name"] = prev[2]["Name"]
    /\ coll[2]["Age"] = I32(45)
    /\ coll[1]["Age"] = Dbl(44)

\* C6: a FindManyFilterJSON(F) that meets no driver error returns, with a
\* nil error, exactly the documents now in the collection that match F; when
\* none matches, an empty sequence and a nil error, never NotFound.
C6_FindManyReturnsTheMatches ==
    (call.op = "FindManyFilterJSON" /\ Converted /\ call.cause = "nil")
        => (/\ call.err = NoErr
            /\ call.res = Matching(coll, SentFilter)
            /\ coll = prev)

C6_Witness ==
    /\ call.op = "FindManyFilterJSON"
    /\ call.err = NoErr
    /\ Len(call.res) = 1
    /\ Len(coll) = 2

\* C7: FindOne with a filter that matches no document, and FindByID with an
\* identifier no document carries, return NotFound and no document; NotFound
\* is returned in no other case, so a store failure (a timeout, a handle that
\* is not connected) is told apart from it.
C7_NotFoundWhenNoneMatches ==
    call.op \in {"FindOne", "FindByID"} =>
        LET filter == IF call.op = "FindOne" THEN SentFilter ELSE FilterByID(call.oid)
            sent == call.op = "FindByID" \/ Converted
            none == sent /\ ReachedServer /\ FirstMatch(coll, filter) = 0
        IN  /\ none => (NotFound(call.err) /\ call.resNil /\ call.res = <<>>)
            /\ call.err.cause = "ErrNoDocuments" => none

C7_Witness ==
    /\ call.op = "FindOne"
    /\ NotFound(call.err)
    /\ call.resNil
    /\ Len(coll) >= 1

\* C8: whichever way a facade method returns (success, conversion failure,
\* driver error, cursor or decode failure), the timeout context it derived has
\* been canceled when it returns.
C8_ContextCanceledOnReturn == call.op \in FacadeOps => ~call.ctxLive

C8_Witness ==
    /\ call.op = "UpdateMany"
    /\ call.path = "conversion"
    /\ ~call.ctxLive

\* C9: a facade call dispatches at most one driver operation: exactly one
\* when the payload converts (or the method takes no JSON), none when the
\* conversion fails, and no second one after the driver reports a failure.
C9_OneDriverOperationPerCall ==
    call.op \in FacadeOps =>
        /\ call.ndrv <= 1
        /\ (call.op \in JSONOps /\ ~Converted) => call.ndrv = 0
        /\ (call.op \notin JSONOps \/ Converted) => call.ndrv = 1

C9_Witness ==
    /\ call.op = "DeleteOne"
    /\ call.cause = "DeadlineExceeded"
    /\ call.ndrv = 1

\* C10: whenever a driver call made by the constructor or by a facade method
\* fails, the call returns a non-nil error that preserves the driver's cause,
\* and does not report success.
C10_DriverFailureSurfaces ==
    call.cause # "nil" => (call.err # NoErr /\ call.err.cause = call.cause)

\* The find-many methods, and the ways walkMongoSet fails.
FindManyOps == {"FindManyFilterJSON", "FindManyFilterBSON"}
CursorIteration(err) == err.wrap \in {"could not decode into buffer", "cursor error"}

\* C11: when FindManyFilterJSON or FindManyFilterBSON has decoded k >= 1
\* documents and a later decode, or the cursor, fails, the call returns a
\* CursorIteration error and a nil slice: none of the k documents is returned.
C11_PartialResultsDiscarded ==
    (call.op \in FindManyOps /\ call.path \in {"decode", "cursor"})
        => (/\ CursorIteration(call.err)
            /\ call.err # NoErr
            /\ call.err.cause # "nil"
            /\ call.res = <<>>
            /\ call.resNil)

C11_Witness ==
    /\ call.op = "FindManyFilterBSON"
    /\ call.path = "decode"
    /\ call.decoded = 1
    /\ Len(Matching(coll, call.flt)) = 2
    /\ call.res = <<>>

\* An integer of any size, as a sign and the bytes of its magnitude.
RECURSIVE IncFrom(_, _)
IncFrom(a, i) ==
    IF i > Len(a) THEN a
    ELSE IF a[i] = 255 THEN IncFrom([a EXCEPT ![i] = 0], i + 1)
    ELSE [a EXCEPT ![i] = a[i] + 1]
Negate64(x) == IncFrom([i \in 1..8 |-> 255 - x[i]], 1)
Widen(a) == [i \in 1..16 |-> IF i <= Len(a) THEN a[i] ELSE 0]
ExactOfInt64(x) == [neg |-> IsNeg(x), mag |-> Widen(IF IsNeg(x) THEN Negate64(x) ELSE x)]
ExactLess(x, y) ==
    CASE x.neg /\ ~y.neg -> TRUE
      [] ~x.neg /\ y.neg -> FALSE
      [] x.neg /\ y.neg -> ULess(y.mag, x.mag)
      [] OTHER -> ULess(x.mag, y.mag)

\* The configured timeout in nanoseconds, as the integer it is: secs * 10^9.
ExactTimeout(secs) == [neg |-> FALSE, mag |-> Mul(secs, Second)]

\* The earlier of (time of the call + configured timeout) and the caller's deadline.
EarlierDeadline(secs, parent) ==
    IF parent # NoDeadline /\ ExactLess(ExactOfInt64(parent), ExactTimeout(secs))
    THEN ExactOfInt64(parent)
    ELSE ExactTimeout(secs)

\* C12: the context every method derives for its driver call has the
\* deadline that is the earlier of (time of the call + the configured number
\* of seconds) and the deadline of the caller's context.
C12_DeadlineIsTheEarlier ==
    ctxLocal # NoCtx =>
        ExactOfInt64(ctxLocal.deadline) = EarlierDeadline(timeoutSecs, parentDeadline)

C12_Witness ==
    /\ ctxLocal.op = "FindOne"
    /\ timeoutSecs = OverMaxSecondsInt64
    /\ parentDeadline = NoDeadline
    /\ IsNeg(ctxLocal.deadline)

\* The same, for the configurations whose nanoseconds fit an int64.
C12_HoldsWithoutOverflow ==
    (ctxLocal # NoCtx /\ ~ULess(MaxSecondsInt64, timeoutSecs))
        => ExactOfInt64(ctxLocal.deadline) = EarlierDeadline(timeoutSecs, parentDeadline)

\* Two accesses conflict when they touch one location and one of them writes.
Conflict(x, y) == x.loc = y.loc /\ (x.mode = "write" \/ y.mode = "write")

\* C13: while callers are inside methods of one shared facade, no two of
\* them have made conflicting memory accesses: every call has a context of its
\* own and a converted document of its own, and the only locations a call
\* writes are its own locals; the facade's fields are only read.
C13_ConcurrentCallsRaceFree ==
    \A p \in Callers :
        /\ \A q \in Callers \ {p} :
                \A x \in threads[p].acc, y \in threads[q].acc : ~Conflict(x, y)
        /\ \A x \in threads[p].acc : x.mode = "write" => x.loc.owner = p
        /\ threads[p].pc # "idle" => threads[p].ctx = p
        /\ threads[p].pc \in {"converted", "deleting", "done"} =>
                threads[p].dataM = jsonToBsonM(threads[p].data).result

C13_Witness ==
    /\ threads["a"].pc = "converted"
    /\ threads["b"].pc = "converted"
    /\ threads["a"].op = "FindManyFilterJSON"
    /\ threads["b"].op = "FindManyFilterJSON"
    /\ threads["a"].dataM # threads["b"].dataM
    /\ Len(coll) = 2

\* C14: the handle NewMongo dials and pings is the handle Connect, Disconnect
\* and the operations use, so once Disconnect has succeeded no connection the
\* facade opened is still open.
C14_NoConnectionLeftOpen ==
    (call.op = "Disconnect" /\ call.err = NoErr) => ~dialOpen

C14_Witness ==
    /\ call.op = "Disconnect"
    /\ call.err = NoErr
    /\ conn = "disconnected"
    /\ dialOpen
    /\ Len(coll) = 1

\* The _id under which the last document of the collection is stored.
StoredID == coll[Len(coll)]["_id"]

\* C15: for a JSON object payload, also one with its own _id that is a string
\* or a number, InsertOne never panics and returns either an identifier with a
\* nil error or the zero identifier with a non-nil error; with a nil error the
\* identifier is not zero and is the _id the document was stored under.
C15_InsertOneNeverCrashes ==
    (call.op = "InsertOne" /\ call.data.k = "object")
        => (/\ call.path # "panic"
            /\ call.err # NoErr => call.id = ZeroID
            /\ call.err = NoErr =>
                    (/\ call.id # ZeroID
                     /\ Len(coll) = Len(prev) + 1
                     /\ StoredID = call.id))

C15_Witness ==
    /\ call.op = "InsertOne"
    /\ call.data = JObj(OwnID(JStr("x")))
    /\ call.path = "panic"
    /\ impl = "Client"
    /\ Len(coll) = Len(prev) + 1
    /\ StoredID = Str("x")

\* C16: a CRUD method called while the facade is not connected (before
\* Connect, or after Disconnect) returns an error and leaves the collection as
\* it was; a CRUD method returns a nil error only while connected.
C16_SuccessOnlyWhileConnected ==
    call.op \in FacadeOps =>
        /\ ~call.connected => (call.err # NoErr /\ coll = prev)
        /\ call.err = NoErr => (call.connected /\ conn = "connected")

C16_Witness ==
    /\ call.op = "InsertOne"
    /\ call.data = Marshal(Person("john", "male", 44))
    /\ conn = "disconnected"
    /\ call.err = Err("ErrClientDisconnected")
    /\ Len(coll) = 1
    /\ coll = prev

====
